---- MODULE Spec2Model ----
(***************************************************************************)
(* Model of ros/src/twist_controller/dbw_node.py (class DBWNode).          *)
(*                                                                         *)
(* Threads.  The main thread runs __init__ and, from line 119, loop().     *)
(* rospy runs the callbacks of each subscribed topic on a thread of that   *)
(* topic, so proposed_cb, current_cb and dbw_enabled_cb run concurrently   *)
(* with the main thread and with each other; callbacks of one topic run    *)
(* one after the other.  The node takes no lock, so the unit of atomicity  *)
(* is one attribute read or one attribute write.  Every program position   *)
(* below is named after the source line it stands at.                      *)
(*                                                                         *)
(* twist_controller.Controller is imported on line 10 and is not part of   *)
(* the source at hand; ControlState and ControlOut model it from its       *)
(* contract in the specification (§4.3).                                   *)
(***************************************************************************)
EXTENDS Integers, Sequences, FiniteSets, TLC

\* ------------------------------------------------------------------ bounds
\* Velocities carried by messages are drawn from 0..MaxVel.
MaxVel == 1
\* Number of /twist_cmd messages delivered in a run (each one gets an id).
MaxProposals == 2
\* The Controller's accumulated error saturates at +/- MaxInt.
MaxInt == 2

Vel == 0..MaxVel

\* Python's None, the "unset" value of lines 89-98.
None == -1

\* Positions of the main thread at the field assignments of __init__.
InitPositions == {"L89", "L90", "L93", "L98", "L100"}

\* Positions of the main thread inside loop().
LoopPositions == {"L124", "L128", "L129", "L130", "L133", "L134", "L135",
                  "L136", "L132", "L138", "L163", "L168", "L174", "L153"}

\* Positions of the main thread inside a tick that belong to publish().
InPublish == {"L163", "L168", "L174"}

\* ------------------------------------------------------------- Controller
Clamp(x) == IF x > MaxInt THEN MaxInt ELSE IF x < -MaxInt THEN -MaxInt ELSE x

\* Accumulated error after control(pl, pa, cl, en) called in state iv:
\* a call with enabled = false clears it.
ControlState(iv, pl, pa, cl, en) ==
  IF en THEN Clamp(iv + (pl - cl)) ELSE 0

\* The triple <<throttle, brake, steering>> returned by that call.
ControlOut(iv, pl, pa, cl, en) ==
  IF en
    THEN LET u == (pl - cl) + ControlState(iv, pl, pa, cl, en)
         IN  << IF u > 0 THEN u ELSE 0, IF u < 0 THEN -u ELSE 0, pa >>
    ELSE << 0, 0, 0 >>

\* ------------------------------------------------------------------ state
VARIABLES
  pc,                    \* position of the main thread
  proposed_linear_vel,   \* self.proposed_linear_vel
  proposed_angular_vel,  \* self.proposed_angular_vel
  current_linear_vel,    \* self.current_linear_vel
  time_nsecs,            \* self._time_nsecs
  dbw_enabled,           \* self.dbw_enabled
  is_shutdown,           \* rospy.is_shutdown()
  cb_pc,                 \* position of the /twist_cmd callback thread
  cb_msg,                \* the message proposed_cb is handling
  args,                  \* arguments of control() evaluated so far
  out,                   \* <<throttle, brake, steering>> of this tick
  published,             \* messages dispatched by this tick, in order
  int_val,               \* the Controller's accumulated error
  calls,                 \* control() invocations of this tick
  \* history variables, read by no action guard
  nprop,                 \* number of /twist_cmd messages delivered
  lin_id,                \* id of the message that wrote proposed_linear_vel
  ang_id,                \* id of the message that wrote proposed_angular_vel
  arg_ids,               \* ids behind the first two entries of args
  received,              \* [proposal, current]: a callback ran to its end;
                         \* [enable]: dbw_enabled_cb was handed True
  latest,                \* last value a callback wrote to each field
  phase                  \* enable history: none, on, off, reon

vars == << pc, proposed_linear_vel, proposed_angular_vel, current_linear_vel,
           time_nsecs, dbw_enabled, is_shutdown, cb_pc, cb_msg, args, out,
           published, int_val, calls, nprop, lin_id, ang_id, arg_ids,
           received, latest, phase >>

shared == << proposed_linear_vel, proposed_angular_vel, current_linear_vel,
             time_nsecs, dbw_enabled >>
cbvars == << cb_pc, cb_msg, nprop >>
tick   == << args, out, published, calls, arg_ids >>
ctrl   == << int_val >>
hist   == << lin_id, ang_id, received, latest, phase >>

NoMsg == [lin |-> None, ang |-> None, id |-> 0]

\* The process is still alive: the main thread has neither returned from
\* loop() nor died of an exception.
Running == pc \notin {"done", "crashed"}

Init ==
  /\ pc = "L83"
  /\ proposed_linear_vel = None
  /\ proposed_angular_vel = None
  /\ current_linear_vel = None
  /\ time_nsecs = None
  /\ dbw_enabled = FALSE
  /\ is_shutdown = FALSE
  /\ cb_pc = "idle"
  /\ cb_msg = NoMsg
  /\ args = << >>
  /\ out = << >>
  /\ published = << >>
  /\ int_val = 0
  /\ calls = 0
  /\ nprop = 0
  /\ lin_id = 0
  /\ ang_id = 0
  /\ arg_ids = << >>
  /\ received = [proposal |-> FALSE, current |-> FALSE, enable |-> FALSE]
  /\ latest = [lin |-> None, ang |-> None, cur |-> None, en |-> FALSE]
  /\ phase = "none"

\* ------------------------------------------------- main thread: __init__
\* Lines 83, 84, 87: from each Subscriber call on, the transport may invoke
\* that topic's callback.
SubscribedProposed == pc \notin {"L83"}
SubscribedCurrent  == pc \notin {"L83", "L84"}
SubscribedEnabled  == pc \notin {"L83", "L84", "L87"}

SubscribeProposed ==
  /\ pc = "L83"
  /\ pc' = "L84"
  /\ UNCHANGED << shared, is_shutdown, cbvars, tick, ctrl, hist >>

SubscribeCurrent ==
  /\ pc = "L84"
  /\ pc' = "L87"
  /\ UNCHANGED << shared, is_shutdown, cbvars, tick, ctrl, hist >>

SubscribeEnabled ==
  /\ pc = "L87"
  /\ pc' = "L89"
  /\ UNCHANGED << shared, is_shutdown, cbvars, tick, ctrl, hist >>

\* Line 89: self.proposed_linear_vel = None
InitProposedLinear ==
  /\ pc = "L89"
  /\ proposed_linear_vel' = None
  /\ lin_id' = 0
  /\ pc' = "L90"
  /\ UNCHANGED << proposed_angular_vel, current_linear_vel, time_nsecs,
                  dbw_enabled, is_shutdown, cbvars, tick, ctrl, ang_id,
                  received, latest, phase >>

\* Line 90: self.proposed_angular_vel = None
InitProposedAngular ==
  /\ pc = "L90"
  /\ proposed_angular_vel' = None
  /\ ang_id' = 0
  /\ pc' = "L93"
  /\ UNCHANGED << proposed_linear_vel, current_linear_vel, time_nsecs,
                  dbw_enabled, is_shutdown, cbvars, tick, ctrl, lin_id,
                  received, latest, phase >>

\* Lines 93-94: self.current_linear_vel = None (current_anuglar_vel, which
\* nothing else reads or writes, is not modelled).
InitCurrentLinear ==
  /\ pc = "L93"
  /\ current_linear_vel' = None
  /\ pc' = "L98"
  /\ UNCHANGED << proposed_linear_vel, proposed_angular_vel, time_nsecs,
                  dbw_enabled, is_shutdown, cbvars, tick, ctrl, hist >>

\* Line 98: self._time_nsecs = None
InitTime ==
  /\ pc = "L98"
  /\ time_nsecs' = None
  /\ pc' = "L100"
  /\ UNCHANGED << proposed_linear_vel, proposed_angular_vel,
                  current_linear_vel, dbw_enabled, is_shutdown, cbvars, tick,
                  ctrl, hist >>

InitEnabled_DefaultTrue ==
  /\ pc = "L100"
  /\ dbw_enabled' = TRUE
  /\ phase' = "none"
  /\ pc' = "L124"
  /\ UNCHANGED << proposed_linear_vel, proposed_angular_vel,
                  current_linear_vel, time_nsecs, is_shutdown, cbvars, tick,
                  ctrl, lin_id, ang_id, received, latest >>

\* Line 100: self.dbw_enabled = False; WRITE_CSV_LOG is False (line 14), so
\* line 119 calls loop() next, whose line 122 creates the rate.
InitEnabled ==
  /\ pc = "L100"
  /\ dbw_enabled' = FALSE
  /\ phase' = "none"
  /\ pc' = "L124"
  /\ UNCHANGED << proposed_linear_vel, proposed_angular_vel,
                  current_linear_vel, time_nsecs, is_shutdown, cbvars, tick,
                  ctrl, lin_id, ang_id, received, latest >>

\* ----------------------------------------------------- main thread: loop
\* Line 124: while not rospy.is_shutdown().  A new tick starts with nothing
\* evaluated, computed or dispatched.
LoopTest ==
  /\ pc = "L124"
  /\ IF is_shutdown
       THEN /\ pc' = "done"
            /\ UNCHANGED tick
       ELSE /\ pc' = "L128"
            /\ args' = << >>
            /\ arg_ids' = << >>
            /\ out' = << >>
            /\ published' = << >>
            /\ calls' = 0
  /\ UNCHANGED << shared, is_shutdown, cbvars, ctrl, hist >>

\* Lines 128-130: the readiness test, one attribute read per conjunct,
\* short-circuit: the first unset field sends the tick to line 153.
CheckLinear ==
  /\ pc = "L128"
  /\ pc' = IF proposed_linear_vel /= None THEN "L129" ELSE "L153"
  /\ UNCHANGED << shared, is_shutdown, cbvars, tick, ctrl, hist >>

CheckAngular ==
  /\ pc = "L129"
  /\ pc' = IF proposed_angular_vel /= None THEN "L130" ELSE "L153"
  /\ UNCHANGED << shared, is_shutdown, cbvars, tick, ctrl, hist >>

CheckCurrent_NoTest ==
  /\ pc = "L130"
  /\ pc' = "L133"
  /\ UNCHANGED << shared, is_shutdown, cbvars, tick, ctrl, hist >>

CheckCurrent ==
  /\ pc = "L130"
  /\ pc' = IF current_linear_vel /= None THEN "L133" ELSE "L153"
  /\ UNCHANGED << shared, is_shutdown, cbvars, tick, ctrl, hist >>

\* Lines 133-136: the four arguments of control() are evaluated left to
\* right, one attribute read each.
ReadLinear ==
  /\ pc = "L133"
  /\ args' = << proposed_linear_vel >>
  /\ arg_ids' = << lin_id >>
  /\ pc' = "L134"
  /\ UNCHANGED << shared, is_shutdown, cbvars, out, published, calls, ctrl,
                  hist >>

ReadAngular ==
  /\ pc = "L134"
  /\ args' = Append(args, proposed_angular_vel)
  /\ arg_ids' = Append(arg_ids, ang_id)
  /\ pc' = "L135"
  /\ UNCHANGED << shared, is_shutdown, cbvars, out, published, calls, ctrl,
                  hist >>

ReadCurrent ==
  /\ pc = "L135"
  /\ args' = Append(args, current_linear_vel)
  /\ pc' = "L136"
  /\ UNCHANGED << shared, is_shutdown, cbvars, out, published, calls,
                  arg_ids, ctrl, hist >>

ReadEnabled ==
  /\ pc = "L136"
  /\ args' = Append(args, dbw_enabled)
  /\ pc' = "L132"
  /\ UNCHANGED << shared, is_shutdown, cbvars, out, published, calls,
                  arg_ids, ctrl, hist >>

Control_ClearsProposal ==
  /\ pc = "L132"
  /\ out' = ControlOut(int_val, args[1], args[2], args[3], args[4])
  /\ int_val' = ControlState(int_val, args[1], args[2], args[3], args[4])
  /\ calls' = calls + 1
  /\ proposed_linear_vel' = None
  /\ pc' = "L138"
  /\ UNCHANGED << proposed_angular_vel, current_linear_vel, time_nsecs,
                  dbw_enabled, is_shutdown, cbvars, args, published, arg_ids,
                  hist >>

\* Line 132: the call self.controller.control(...) returns a triple.
Control ==
  /\ pc = "L132"
  /\ out' = ControlOut(int_val, args[1], args[2], args[3], args[4])
  /\ int_val' = ControlState(int_val, args[1], args[2], args[3], args[4])
  /\ calls' = calls + 1
  /\ pc' = "L138"
  /\ UNCHANGED << shared, is_shutdown, cbvars, args, published, arg_ids,
                  hist >>

\* Line 132: the call raises.  loop() has no try statement, nor has
\* __init__ or line 192, so the exception leaves all three.
ControlFault ==
  /\ pc = "L132"
  /\ calls' = calls + 1
  /\ pc' = "crashed"
  /\ UNCHANGED << shared, is_shutdown, cbvars, args, out, published, arg_ids,
                  ctrl, hist >>

\* Line 138: if self.dbw_enabled (a second read of the attribute).
TestEnabled ==
  /\ pc = "L138"
  /\ pc' = IF dbw_enabled THEN "L163" ELSE "L153"
  /\ UNCHANGED << shared, is_shutdown, cbvars, tick, ctrl, hist >>

\* publish(throttle, brake, steer), called on line 139 with out.
ThrottleCmd(throttle) ==
  [topic |-> "throttle", enable |-> TRUE, type |-> "percent",
   value |-> throttle]
SteeringCmd(steer) ==
  [topic |-> "steering", enable |-> TRUE, type |-> "none", value |-> steer]
BrakeCmd(brake) ==
  [topic |-> "brake", enable |-> TRUE, type |-> "torque", value |-> brake]

\* Lines 159-163
PublishThrottle ==
  /\ pc = "L163"
  /\ published' = Append(published, ThrottleCmd(out[1]))
  /\ phase' = IF phase = "reon" THEN "on" ELSE phase
  /\ pc' = "L168"
  /\ UNCHANGED << shared, is_shutdown, cbvars, args, out, calls, arg_ids,
                  ctrl, lin_id, ang_id, received, latest >>

PublishSteer_AbortOnShutdown ==
  /\ pc = "L168"
  /\ IF is_shutdown
       THEN /\ pc' = "done"
            /\ UNCHANGED published
       ELSE /\ published' = Append(published, SteeringCmd(out[3]))
            /\ pc' = "L174"
  /\ UNCHANGED << shared, is_shutdown, cbvars, args, out, calls, arg_ids,
                  ctrl, hist >>

\* Lines 165-168
PublishSteer ==
  /\ pc = "L168"
  /\ published' = Append(published, SteeringCmd(out[3]))
  /\ pc' = "L174"
  /\ UNCHANGED << shared, is_shutdown, cbvars, args, out, calls, arg_ids,
                  ctrl, hist >>

PublishBrake_SendsSteer ==
  /\ pc = "L174"
  /\ published' = Append(published, BrakeCmd(out[3]))
  /\ pc' = "L153"
  /\ UNCHANGED << shared, is_shutdown, cbvars, args, out, calls, arg_ids,
                  ctrl, hist >>

\* Lines 170-174; WRITE_CSV_LOG is False, so line 153 follows.
PublishBrake ==
  /\ pc = "L174"
  /\ published' = Append(published, BrakeCmd(out[2]))
  /\ pc' = "L153"
  /\ UNCHANGED << shared, is_shutdown, cbvars, args, out, calls, arg_ids,
                  ctrl, hist >>

\* Line 153: rate.sleep()
Sleep ==
  /\ pc = "L153"
  /\ pc' = "L124"
  /\ UNCHANGED << shared, is_shutdown, cbvars, tick, ctrl, hist >>

\* --------------------------------------------------------------- callbacks
\* Line 177, with the delivery of the message to proposed_cb.
ProposedWriteLinear ==
  /\ Running /\ SubscribedProposed
  /\ cb_pc = "idle"
  /\ nprop < MaxProposals
  /\ \E l \in Vel, a \in Vel :
       /\ cb_msg' = [lin |-> l, ang |-> a, id |-> nprop + 1]
       /\ proposed_linear_vel' = l
       /\ latest' = [latest EXCEPT !.lin = l]
       /\ phase' = IF l /= proposed_linear_vel /\ phase \in {"off", "reon"}
                     THEN (IF dbw_enabled THEN "on" ELSE "none")
                     ELSE phase
  /\ nprop' = nprop + 1
  /\ lin_id' = nprop + 1
  /\ cb_pc' = "L178"
  /\ UNCHANGED << pc, proposed_angular_vel, current_linear_vel, time_nsecs,
                  dbw_enabled, is_shutdown, tick, ctrl, ang_id, received >>

\* Line 178
ProposedWriteAngular ==
  /\ Running
  /\ cb_pc = "L178"
  /\ proposed_angular_vel' = cb_msg.ang
  /\ ang_id' = cb_msg.id
  /\ latest' = [latest EXCEPT !.ang = cb_msg.ang]
  /\ phase' = IF cb_msg.ang /= proposed_angular_vel
                   /\ phase \in {"off", "reon"}
                THEN (IF dbw_enabled THEN "on" ELSE "none")
                ELSE phase
  /\ cb_pc' = "L180"
  /\ UNCHANGED << pc, proposed_linear_vel, current_linear_vel, time_nsecs,
                  dbw_enabled, is_shutdown, cb_msg, nprop, tick, ctrl, lin_id,
                  received >>

\* Line 180; the stamp of a message is modelled by the message's id.
ProposedWriteTime ==
  /\ Running
  /\ cb_pc = "L180"
  /\ time_nsecs' = cb_msg.id
  /\ received' = [received EXCEPT !.proposal = TRUE]
  /\ cb_pc' = "idle"
  /\ cb_msg' = NoMsg
  /\ UNCHANGED << pc, proposed_linear_vel, proposed_angular_vel,
                  current_linear_vel, dbw_enabled, is_shutdown, nprop, tick,
                  ctrl, lin_id, ang_id, latest, phase >>

current_cb_WritesAngular ==
  /\ Running /\ SubscribedCurrent
  /\ \E v \in Vel :
       /\ current_linear_vel' = v
       /\ proposed_angular_vel' = v
       /\ latest' = [latest EXCEPT !.cur = v]
  /\ received' = [received EXCEPT !.current = TRUE]
  /\ UNCHANGED << pc, proposed_linear_vel, time_nsecs,
                  dbw_enabled, is_shutdown, cbvars, tick, ctrl, lin_id,
                  ang_id, phase >>

\* Line 183
current_cb ==
  /\ Running /\ SubscribedCurrent
  /\ \E v \in Vel :
       /\ current_linear_vel' = v
       /\ latest' = [latest EXCEPT !.cur = v]
  /\ received' = [received EXCEPT !.current = TRUE]
  /\ UNCHANGED << pc, proposed_linear_vel, proposed_angular_vel, time_nsecs,
                  dbw_enabled, is_shutdown, cbvars, tick, ctrl, lin_id,
                  ang_id, phase >>

dbw_enabled_cb_ResetsController ==
  /\ Running /\ SubscribedEnabled
  /\ \E b \in BOOLEAN :
       /\ dbw_enabled' = b
       /\ int_val' = IF b THEN int_val ELSE 0
       /\ latest' = [latest EXCEPT !.en = b]
       /\ phase' = IF b
                     THEN (IF phase = "off" THEN "reon"
                           ELSE IF phase = "none" THEN "on" ELSE phase)
                     ELSE (IF phase \in {"on", "reon"} THEN "off" ELSE phase)
       /\ received' = [received EXCEPT !.enable = @ \/ b]
  /\ UNCHANGED << pc, proposed_linear_vel, proposed_angular_vel,
                  current_linear_vel, time_nsecs, is_shutdown, cbvars, tick,
                  lin_id, ang_id >>

\* Line 188
dbw_enabled_cb ==
  /\ Running /\ SubscribedEnabled
  /\ \E b \in BOOLEAN :
       /\ dbw_enabled' = b
       /\ latest' = [latest EXCEPT !.en = b]
       /\ phase' = IF b
                     THEN (IF phase = "off" THEN "reon"
                           ELSE IF phase = "none" THEN "on" ELSE phase)
                     ELSE (IF phase \in {"on", "reon"} THEN "off" ELSE phase)
       /\ received' = [received EXCEPT !.enable = @ \/ b]
  /\ UNCHANGED << pc, proposed_linear_vel, proposed_angular_vel,
                  current_linear_vel, time_nsecs, is_shutdown, cbvars, tick,
                  ctrl, lin_id, ang_id >>

\* The process-wide shutdown signal: rospy.is_shutdown() turns true.
Shutdown ==
  /\ Running
  /\ ~is_shutdown
  /\ is_shutdown' = TRUE
  /\ UNCHANGED << pc, shared, cbvars, tick, ctrl, hist >>

Next ==
  \/ SubscribeProposed \/ SubscribeCurrent \/ SubscribeEnabled
  \/ InitProposedLinear \/ InitProposedAngular \/ InitCurrentLinear
  \/ InitTime \/ InitEnabled
  \/ LoopTest \/ CheckLinear \/ CheckAngular \/ CheckCurrent
  \/ ReadLinear \/ ReadAngular \/ ReadCurrent \/ ReadEnabled
  \/ Control \/ ControlFault \/ TestEnabled
  \/ PublishThrottle \/ PublishSteer \/ PublishBrake \/ Sleep
  \/ ProposedWriteLinear \/ ProposedWriteAngular \/ ProposedWriteTime
  \/ current_cb \/ dbw_enabled_cb \/ Shutdown

Spec == Init /\ [][Next]_vars

\* ------------------------------------------------------------ properties
\* C1: the linear and the angular velocity a tick passes to control() were
\* written by one and the same /twist_cmd message.
C1_NoTornProposal ==
  pc = "L132" => arg_ids[1] = arg_ids[2]

\* C2: in every state in which publish() is about to send a message, the
\* shared enable flag is true.
C2_DispatchOnlyWhileEnabled ==
  pc \in InPublish => dbw_enabled

\* C3: every tick that publishes computed its triple by a control() call
\* made with enabled = true.
C3_EnabledSnapshot ==
  (pc \in InPublish \/ published /= << >>) => args[4] = TRUE

\* C4: control() is invoked only after a proposal and a current velocity
\* were delivered, and never with an unset velocity argument.
C4_ControlOnlyWhenReady ==
  (pc = "L132" \/ calls > 0) =>
     /\ nprop >= 1
     /\ received.current
     /\ args[1] /= None /\ args[2] /= None /\ args[3] /= None

C4_Witness ==
  pc = "L138" /\ calls = 1 /\ args[1] \in Vel /\ args[2] \in Vel
              /\ args[3] \in Vel

\* C5: as long as a proposal and a current velocity have not both been
\* delivered, the tick under way has sent no message and is not inside
\* publish(), whatever the enable flag.
C5_NoCommandBeforeInputs ==
  ~(nprop >= 1 /\ received.current) =>
     (published = << >> /\ pc \notin InPublish)

\* A tick runs its readiness test with the flag true and one input missing,
\* and skips.
C5_Witness ==
  /\ pc = "L153" /\ dbw_enabled /\ calls = 0 /\ published = << >>
  /\ ~(nprop >= 1 /\ received.current)

\* C6: a readiness test made after proposed_cb and current_cb have each run
\* to their end never skips the tick, a tick calls control() at most once,
\* and a tick whose control() call was made with enabled = false publishes
\* nothing.
C6_ControlEveryReadyTick ==
  [][ /\ (pc \in {"L128", "L129", "L130"}
            /\ received.proposal /\ received.current) => pc' /= "L153"
      /\ calls' <= 1
      /\ (pc = "L138" /\ args[4] = FALSE) => pc' /= "L163" ]_vars

\* C7: the first triple published after the flag went true, false, true
\* with the proposal unchanged is the triple a Controller without
\* accumulated error returns for the same arguments.
C7_FreshAfterReenable ==
  (pc = "L163" /\ phase = "reon") =>
     out = ControlOut(0, args[1], args[2], args[3], args[4])

\* C8: outside publish() the tick has sent either nothing or exactly the
\* three messages throttle, steering, brake, once each; in particular when
\* the loop has ended.
C8_AllOrNone ==
  pc \notin {"L168", "L174"} =>
     \/ published = << >>
     \/ /\ Len(published) = 3
        /\ published[1].topic = "throttle"
        /\ published[2].topic = "steering"
        /\ published[3].topic = "brake"

\* The shutdown signal came during a tick that publishes; the loop ended
\* after the whole triple.
C8_Witness ==
  pc = "done" /\ is_shutdown /\ Len(published) = 3

\* C9: a fault of control() does not end the loop.
C9_FaultKeepsLoopRunning ==
  pc /= "crashed"

\* C10: whenever loop() is about to read a shared field, the field holds
\* the value of the last update a callback wrote to it, or the default if
\* no callback wrote one.
C10_MostRecentWriteWins ==
  /\ pc \in {"L128", "L133"} => proposed_linear_vel = latest.lin
  /\ pc \in {"L129", "L134"} => proposed_angular_vel = latest.ang
  /\ pc \in {"L130", "L135"} => current_linear_vel = latest.cur
  /\ pc \in {"L136", "L138"} => dbw_enabled = latest.en

\* C11: the loop is left only once the shutdown signal has been raised.
C11_EndsOnlyOnShutdown ==
  pc \in {"done", "crashed"} => is_shutdown

\* C12: as long as dbw_enabled_cb has never been handed True, the tick
\* under way has sent no message and is not inside publish().
C12_DisabledByDefault ==
  ~received.enable => (published = << >> /\ pc \notin InPublish)

\* Inputs are there, control() was called, and the tick dropped the triple.
C12_Witness ==
  /\ ~received.enable /\ pc = "L153" /\ calls = 1
  /\ received.proposal /\ received.current /\ published = << >>

\* C13: every message sent by a tick carries enable = true, and the
\* throttle message carries the throttle of the triple control() returned
\* (type percent), the steering message its steering, the brake message its
\* brake (type torque).
C13_MessagesCarryTriple ==
  \A i \in 1..Len(published) :
     LET m == published[i] IN
       /\ m.enable = TRUE
       /\ m.topic = "throttle" => (m.type = "percent" /\ m.value = out[1])
       /\ m.topic = "brake" => (m.type = "torque" /\ m.value = out[2])
       /\ m.topic = "steering" => m.value = out[3]

\* A full triple whose three components differ pairwise.
C13_Witness ==
  /\ Len(published) = 3
  /\ out[1] /= out[2] /\ out[2] /= out[3] /\ out[1] /= out[3]

\* C14: a tick starts only from line 124, with the previous tick's
\* publish() finished; a tick calls control() at most once; and a step of a
\* callback thread (the main thread stays where it is) changes neither the
\* Controller's state nor the tick's triple, its messages or its call count.
C14_TicksSequential ==
  [][ /\ (pc' = "L128" /\ pc /= "L128") =>
            (pc = "L124" /\ (published = << >> \/ Len(published) = 3))
      /\ calls' <= 1
      /\ pc' = pc => UNCHANGED << int_val, out, published, calls >> ]_vars

\* A callback is half way through while the tick has called control().
C14_Witness ==
  cb_pc = "L178" /\ pc = "L138" /\ calls = 1 /\ int_val /= 0

\* C15: proposed_cb writes neither current_linear_vel nor dbw_enabled,
\* current_cb writes only current_linear_vel, dbw_enabled_cb writes only
\* dbw_enabled, and no step of loop() or publish() writes a shared field.
C15_FrameEffects ==
  [][ /\ (ProposedWriteLinear \/ ProposedWriteAngular \/ ProposedWriteTime)
            => UNCHANGED << current_linear_vel, dbw_enabled >>
      /\ current_cb
            => UNCHANGED << proposed_linear_vel, proposed_angular_vel,
                            time_nsecs, dbw_enabled >>
      /\ dbw_enabled_cb
            => UNCHANGED << proposed_linear_vel, proposed_angular_vel,
                            time_nsecs, current_linear_vel >>
      /\ (pc \in LoopPositions /\ pc' /= pc) => UNCHANGED shared ]_vars

\* All three callbacks have written, and a tick has published.
C15_Witness ==
  /\ received.proposal /\ received.current /\ received.enable
  /\ Len(published) = 3 /\ pc = "L153"

\* C16: an assignment of lines 89-100 never changes a field to which a
\* callback has already written an update.
C16_InitKeepsUpdates ==
  [][ (pc \in InitPositions /\ pc' /= pc) =>
        ( /\ latest.lin /= None => proposed_linear_vel' = proposed_linear_vel
          /\ latest.ang /= None =>
                proposed_angular_vel' = proposed_angular_vel
          /\ latest.cur /= None => current_linear_vel' = current_linear_vel
          /\ latest.en => dbw_enabled' = dbw_enabled )
    ]_vars

\* C17: inside loop(), a set field never becomes unset again, and once all
\* three are set no readiness test sends the tick to line 153.
AllSet ==
  /\ proposed_linear_vel /= None
  /\ proposed_angular_vel /= None
  /\ current_linear_vel /= None

C17_ReadinessMonotone ==
  [][ (pc \in LoopPositions) =>
        ( /\ proposed_linear_vel /= None => proposed_linear_vel' /= None
          /\ proposed_angular_vel /= None => proposed_angular_vel' /= None
          /\ current_linear_vel /= None => current_linear_vel' /= None
          /\ (AllSet /\ pc \in {"L128", "L129", "L130"}) => pc' /= "L153" )
    ]_vars

\* A later tick has passed the readiness test again: the Controller holds
\* accumulated error from an earlier call and new messages have arrived.
C17_Witness ==
  pc = "L133" /\ calls = 0 /\ int_val /= 0 /\ nprop = MaxProposals

\* C18: while a proposal and a current velocity have been received, the
\* flag is and stays true and no shutdown is signalled, no step of a tick
\* skips or abandons the tick before its publish().
C18_NoReadyEnabledTickSkipped ==
  [][ ( /\ received.proposal /\ received.current
        /\ dbw_enabled /\ dbw_enabled'
        /\ ~is_shutdown /\ ~is_shutdown'
        /\ pc \in {"L128", "L129", "L130", "L133", "L134", "L135", "L136",
                   "L132", "L138"} )
      => pc' \notin {"L153", "L124", "done", "crashed"}
    ]_vars

====
